---- MODULE Spec2Model ----
(***************************************************************************)
(* Carbon-RWA: the batch pipeline of src/dataset.py (join, Basel III risk  *)
(* engine, carbon-tax stress, LP optimisation, output) followed by the     *)
(* dashboard of src/dashboard.py.                                          *)
(*                                                                         *)
(* Floating-point columns are modelled as tagged fixed-point values:       *)
(*   [t |-> "fin", v |-> n]   a finite number, n in the unit of its column *)
(*   [t |-> "nan", v |-> 0]   NaN                                          *)
(*   [t |-> "inf", v |-> s]   +Infinity (s = 1) or -Infinity (s = -1)      *)
(*   [t |-> "str", v |-> s]   a string cell (Sector, Strategy, Category)   *)
(* with IEEE-754 rules for the special values.  Units:                     *)
(*   Exposure_INR_Cr, Maturity_Years, Carbon_Intensity : 1                 *)
(*   Interest_Rate, Base_PD, Stressed_PD, hazard       : 1/PDScale         *)
(*   LGD                                               : 1/LGDScale        *)
(*   Transition_Readiness                              : 1/TRScale         *)
(*   *_RWA, *_Capital, Net_Income                      : 1/MoneyScale      *)
(*   Optimized_Retention                               : n / d (exact)     *)
(***************************************************************************)
EXTENDS Integers, Sequences, FiniteSets, TLC

\* ------------------------------------------------------------------ bounds
n_loans == 2          \* number of facilities in raw_financial_table
GridSteps == 4        \* resolution of the retention vectors the optimum is compared with

\* ------------------------------------------------------------------- units
PDScale == 10000
LGDScale == 100
TRScale == 10
MoneyScale == 10
BScale == 20
MAScale == 1000

\* ------------------------------------------------------- program constants
PD_FLOOR == 3             \* 0.0003, np.maximum(pd_val, 0.0003)
PD_CAP == 9990            \* 0.999, np.minimum(Stressed_PD, 0.999)
carbon_tax == 4200        \* INR per ton
CI_LOADING == 100000      \* Carbon_Intensity / 100000
SHOCK_DIV == 1000000      \* (Carbon_Intensity * carbon_tax) / 1000000
CET1_RATIO == 105         \* 0.105, in 1/1000
RWA_MULT == 125           \* 12.5, in 1/10
CAPITAL_CEILING == 22     \* 1.10, in 1/BScale
VOLUME_FLOOR == 17        \* 0.85, in 1/BScale
EXIT_THRESHOLD == 10      \* retention < 0.1, i.e. retention * 10 < 1
HIGH_CARBON == 1200       \* dashboard: Carbon_Intensity > 1200
SAMPLE_MAX == 500         \* dashboard: df.sample(n=min(500, len(df)))

\* ------------------------------------------------- floating-point values
Fin(n) == [t |-> "fin", v |-> n]
NaN == [t |-> "nan", v |-> 0]
Inf(s) == [t |-> "inf", v |-> s]
Str(s) == [t |-> "str", v |-> s]

IsFin(a) == a.t = "fin"
IsNaN(a) == a.t = "nan"
IsInf(a) == a.t = "inf"

Sgn(n) == IF n > 0 THEN 1 ELSE IF n < 0 THEN -1 ELSE 0
Abs(n) == IF n < 0 THEN -n ELSE n

\* a + b
FAdd(a, b) ==
    IF IsNaN(a) \/ IsNaN(b) THEN NaN
    ELSE IF IsInf(a) /\ IsInf(b) THEN (IF a.v = b.v THEN a ELSE NaN)
    ELSE IF IsInf(a) THEN a
    ELSE IF IsInf(b) THEN b
    ELSE Fin(a.v + b.v)

FNeg(a) == IF IsNaN(a) THEN NaN ELSE [t |-> a.t, v |-> -a.v]

\* a - b
FSub(a, b) == FAdd(a, FNeg(b))

\* a * b, the product of two fixed-point values rescaled by 1/d
FMul(a, b, d) ==
    IF IsNaN(a) \/ IsNaN(b) THEN NaN
    ELSE IF IsInf(a) \/ IsInf(b)
         THEN (IF a.v = 0 \/ b.v = 0 THEN NaN ELSE Inf(Sgn(a.v) * Sgn(b.v)))
    ELSE Fin((a.v * b.v) \div d)

\* floor(a * m / b) for b > 0 and m a power of ten, digit by digit
RECURSIVE LongDiv(_, _, _)
LongDiv(a, b, m) ==
    IF m = 1 THEN a \div b
    ELSE (a \div b) * m + LongDiv((a % b) * 10, b, m \div 10)

\* a / b, the quotient of two fixed-point values rescaled by m
FDiv(a, b, m) ==
    IF IsNaN(a) \/ IsNaN(b) THEN NaN
    ELSE IF IsInf(a) /\ IsInf(b) THEN NaN
    ELSE IF IsInf(a) THEN Inf(a.v * (IF b.v < 0 THEN -1 ELSE 1))
    ELSE IF IsInf(b) THEN Fin(0)
    ELSE IF b.v = 0 THEN (IF a.v = 0 THEN NaN ELSE Inf(Sgn(a.v)))
    ELSE Fin(IF b.v > 0 THEN LongDiv(a.v, b.v, m) ELSE LongDiv(-a.v, -b.v, m))

\* a < b (every comparison with NaN is false)
FLt(a, b) ==
    IF IsNaN(a) \/ IsNaN(b) THEN FALSE
    ELSE IF IsInf(a) THEN a.v = -1 /\ ~(IsInf(b) /\ b.v = -1)
    ELSE IF IsInf(b) THEN b.v = 1
    ELSE a.v < b.v

\* np.maximum / np.minimum: NaN propagates
FMax(a, b) == IF IsNaN(a) \/ IsNaN(b) THEN NaN ELSE IF FLt(a, b) THEN b ELSE a
FMin(a, b) == IF IsNaN(a) \/ IsNaN(b) THEN NaN ELSE IF FLt(b, a) THEN b ELSE a

\* ------------------------------------------------------------- data frame
\* a data frame is a sequence of rows; a row maps column names to cells
Col(frame, name) == [i \in DOMAIN frame |-> frame[i][name]]

HasCol(frame, name) == \A i \in DOMAIN frame : name \in DOMAIN frame[i]

\* df[name] = column (adds the column or overwrites it)
SetCol(frame, name, column) ==
    [i \in DOMAIN frame |->
        [k \in DOMAIN frame[i] \cup {name} |->
            IF k = name THEN column[i] ELSE frame[i][k]]]

RECURSIVE SumTo(_, _)
SumTo(column, n) == IF n = 0 THEN Fin(0) ELSE FAdd(SumTo(column, n - 1), column[n])

\* Series.sum() / ndarray.sum()
Sum(column) == SumTo(column, Len(column))

\* ------------------------------------------------------------ input tables
LGD == 45             \* 0.45, Standard Basel Foundation Loss Given Default

FinRow(b, sector, exposure, maturity, rate) ==
    [Loan_ID |-> 10000 + b, Borrower_ID |-> b, Sector |-> Str(sector),
     Exposure_INR_Cr |-> exposure, Maturity_Years |-> Fin(maturity),
     Interest_Rate |-> Fin(rate), LGD |-> Fin(LGD)]

EsgRow(b, intensity, readiness) ==
    [Borrower_ID |-> b, Carbon_Intensity_Scope1_2 |-> Fin(intensity),
     Transition_Readiness_Score |-> readiness]

\* The borrowers the model draws its portfolios from: the financial row and
\* the ESG row (if the vendor has one) of each kind of borrower.
BorrowerKinds == 1 .. 6

KindFin(kind, b) ==
    CASE kind = 1 -> FinRow(b, "Steel & Cement", Fin(100), 2, 800)
      [] kind = 2 -> FinRow(b, "Power (Thermal)", Fin(15), 8, 1400)
      [] kind = 3 -> FinRow(b, "IT Services", Fin(20), 5, 1200)
      [] kind = 4 -> FinRow(b, "Infra & Roads", Fin(50), 3, 1100)
      [] kind = 5 -> FinRow(b, "Power (Thermal)", Inf(1), 4, 1300)
      [] kind = 6 -> FinRow(b, "Pharma", Fin(40), 6, 1000)

KindHasEsg(kind) == kind # 6

KindEsg(kind, b) ==
    CASE kind = 1 -> EsgRow(b, 1800, Fin(8))
      [] kind = 2 -> EsgRow(b, 950, Fin(6))
      [] kind = 3 -> EsgRow(b, 20, Fin(10))
      [] kind = 4 -> EsgRow(b, 200, NaN)
      [] kind = 5 -> EsgRow(b, 1000, Fin(3))
      [] kind = 6 -> EsgRow(b, 200, Fin(5))

\* np.random.beta(1.5, 30): the draws the model takes, in 1/PDScale
HazardDraws == {0, 100, 3000, 9990}

\* ------------------------------------------------------------------- join
RECURSIVE JoinFrom(_, _, _)
JoinFrom(f, e, b) ==
    IF b > n_loans THEN <<>>
    ELSE (IF b \in DOMAIN e
          THEN << [Sector |-> f[b].Sector,
                   Exposure_INR_Cr |-> f[b].Exposure_INR_Cr,
                   Maturity_Years |-> f[b].Maturity_Years,
                   Interest_Rate |-> f[b].Interest_Rate,
                   LGD |-> f[b].LGD,
                   Carbon_Intensity |-> e[b].Carbon_Intensity_Scope1_2,
                   Transition_Readiness |-> e[b].Transition_Readiness_Score] >>
          ELSE <<>>) \o JoinFrom(f, e, b + 1)

\* SELECT ... FROM raw_financial_table f JOIN raw_esg_table e ON f.Borrower_ID = e.Borrower_ID
sql_query(f, e) == JoinFrom(f, e, 1)

InputColumns == {"Sector", "Exposure_INR_Cr", "Maturity_Years", "Interest_Rate",
                 "LGD", "Carbon_Intensity", "Transition_Readiness"}

\* ------------------------------------------------------------ risk engine
\* Base_PD = beta draw + Carbon_Intensity / 100000
BasePD(hazard, intensity) ==
    FAdd(Fin(hazard), FMul(intensity, Fin(1), CI_LOADING \div PDScale))

\* The transcendental terms of the AIRB formula at knots of pd_val (in
\* 1/PDScale), linearly interpolated between knots:
\*   <<pd_val, norm.cdf((norm.ppf(pd) + sqrt(r) * norm.ppf(0.999)) / sqrt(1 - r)),
\*     b = (0.11852 - 0.05478 * log(pd)) ** 2>>
AirbKnots ==
    << <<3, 138, 3168>>, <<5, 204, 2861>>, <<10, 342, 2469>>,
       <<20, 554, 2106>>, <<30, 720, 1907>>, <<50, 977, 1671>>,
       <<75, 1217, 1494>>, <<100, 1403, 1375>>, <<150, 1685, 1215>>,
       <<200, 1903, 1108>>, <<250, 2087, 1028>>, <<300, 2253, 965>>,
       <<400, 2558, 869>>, <<500, 2845, 799>>, <<600, 3121, 743>>,
       <<700, 3388, 698>>, <<850, 3768, 643>>, <<1000, 4124, 599>>,
       <<1250, 4665, 540>>, <<1500, 5146, 495>>, <<1750, 5576, 458>>,
       <<2000, 5964, 427>>, <<2500, 6635, 378>>, <<3000, 7198, 340>>,
       <<3500, 7674, 310>>, <<4000, 8081, 285>>, <<4500, 8431, 263>>,
       <<5000, 8731, 245>>, <<6000, 9209, 215>>, <<7000, 9554, 191>>,
       <<8000, 9792, 171>>, <<9000, 9939, 154>>, <<9500, 9981, 147>>,
       <<9990, 10000, 141>>, <<10000, 10000, 140>> >>

Interpolate(p, j) ==
    LET i == CHOOSE i \in 1 .. Len(AirbKnots) - 1 :
                 AirbKnots[i][1] <= p /\ p <= AirbKnots[i + 1][1]
        lo == AirbKnots[i]
        hi == AirbKnots[i + 1]
    IN  lo[j] + ((hi[j] - lo[j]) * (p - lo[1])) \div (hi[1] - lo[1])

\* norm.cdf((term1 + np.sqrt(r) * term2) / np.sqrt(1 - r)); norm.ppf is NaN
\* outside [0, 1]
ConditionalPD(pd_val) ==
    IF ~IsFin(pd_val) THEN NaN
    ELSE IF pd_val.v > PDScale THEN NaN
    ELSE Fin(Interpolate(pd_val.v, 2))

\* b = (0.11852 - 0.05478 * np.log(pd_val)) ** 2
MaturitySlope(pd_val) ==
    IF IsNaN(pd_val) THEN NaN
    ELSE IF IsInf(pd_val) THEN Inf(1)
    ELSE IF pd_val.v > PDScale THEN Fin(AirbKnots[Len(AirbKnots)][3])
    ELSE Fin(Interpolate(pd_val.v, 3))

calculate_rwa(exposure, pd_in, lgd, maturity) ==
    LET pd_val == FMax(pd_in, Fin(PD_FLOOR))
        b == MaturitySlope(pd_val)
        \* lgd * norm.cdf(...) - pd_val * lgd, in 1/(PDScale * LGDScale)
        loss == FSub(FMul(lgd, ConditionalPD(pd_val), 1), FMul(pd_val, lgd, 1))
        \* 1 + (maturity - 2.5) * b and 1 - 1.5 * b, in 1/(2 * PDScale)
        num == FAdd(Fin(2 * PDScale),
                    FMul(FSub(FMul(maturity, Fin(2), 1), Fin(5)), b, 1))
        den == FSub(Fin(2 * PDScale), FMul(Fin(3), b, 1))
        adj == FDiv(num, den, MAScale)
        k == FMul(loss, adj, LGDScale * MAScale)            \* in 1/PDScale
    IN  FMul(FMul(exposure, k, 1), Fin(RWA_MULT), (10 * PDScale) \div MoneyScale)

\* RWA * 0.105
Capital(rwa) == FMul(rwa, Fin(CET1_RATIO), 1000)

\* shock_impact = (Carbon_Intensity * carbon_tax) / 1000000, in 1/PDScale
shock_impact(intensity) == FMul(intensity, Fin(carbon_tax), SHOCK_DIV \div PDScale)

\* Base_PD * (1 + (shock_impact * (1 - Transition_Readiness)))
ShockedPD(base, intensity, readiness) ==
    LET amp == FMul(shock_impact(intensity), FSub(Fin(TRScale), readiness), TRScale)
    IN  FMul(base, FAdd(Fin(PDScale), amp), PDScale)

\* np.minimum(Stressed_PD, 0.999)
CapPD(p) == FMin(p, Fin(PD_CAP))

\* Exposure * Interest_Rate - Exposure * Stressed_PD * LGD
NetIncome(exposure, rate, stressed, lgd) ==
    FSub(FMul(exposure, rate, PDScale \div MoneyScale),
         FMul(FMul(exposure, stressed, 1), lgd, (PDScale * LGDScale) \div MoneyScale))

\* df.fillna(0, inplace=True): every NaN cell of every column becomes 0
fillna(frame) ==
    [i \in DOMAIN frame |->
        [k \in DOMAIN frame[i] |-> IF IsNaN(frame[i][k]) THEN Fin(0) ELSE frame[i][k]]]

\* -------------------------------------------------------------- optimiser
\* a faulty variant of c, without the sign change: the solver then minimises
\* the net income
c_unnegated(frame) == Col(frame, "Net_Income")

\* c = -1 * df['Net_Income'].values
c(frame) == [i \in DOMAIN frame |-> FMul(Fin(-1), frame[i].Net_Income, 1)]

\* a faulty variant of A_ub whose capital coefficients are taken from the rows
\* in reverse order
A_ub_misaligned(frame) ==
    << [i \in DOMAIN frame |-> frame[Len(frame) + 1 - i].Stressed_Capital],
       [i \in DOMAIN frame |-> FMul(Fin(-1), frame[i].Exposure_INR_Cr, 1)] >>

\* A_ub = [df['Stressed_Capital'].values, -1 * df['Exposure_INR_Cr'].values]
A_ub(frame) ==
    << Col(frame, "Stressed_Capital"),
       [i \in DOMAIN frame |-> FMul(Fin(-1), frame[i].Exposure_INR_Cr, 1)] >>

\* a faulty variant of b_ub whose volume floor is 0.50 of the exposure
b_ub_half_volume(frame) ==
    << FMul(Sum(Col(frame, "Current_Capital")), Fin(CAPITAL_CEILING), 1),
       FMul(FMul(Fin(-1), Sum(Col(frame, "Exposure_INR_Cr")), 1), Fin(BScale \div 2), 1) >>

\* b_ub = [Current_Capital.sum() * 1.10, -1 * Exposure.sum() * 0.85], in 1/BScale
\* of the unit of the coefficients of its row
b_ub(frame) ==
    << FMul(Sum(Col(frame, "Current_Capital")), Fin(CAPITAL_CEILING), 1),
       FMul(FMul(Fin(-1), Sum(Col(frame, "Exposure_INR_Cr")), 1), Fin(VOLUME_FLOOR), 1) >>

\* bounds = [(0, 1) for _ in range(len(df))]
bounds(frame) == [i \in DOMAIN frame |-> <<0, 1>>]

AllFinite(column) == \A i \in DOMAIN column : IsFin(column[i])

\* A point of the LP is [n |-> N, q |-> q] with q > 0 and x[i] = N[i] / (BScale * q).
RECURSIVE DotTo(_, _, _)
DotTo(a, N, m) == IF m = 0 THEN 0 ELSE DotTo(a, N, m - 1) + a[m].v * N[m]

Dot(a, N) == DotTo(a, N, Len(a))

\* a / b <= c / d for b, d > 0, by continued fractions (no product is formed)
RECURSIVE RatLe(_, _, _, _)
RatLe(a, b, c2, d) ==
    IF a \div b # c2 \div d THEN a \div b < c2 \div d
    ELSE IF a % b = 0 THEN TRUE
    ELSE IF c2 % d = 0 THEN FALSE
    ELSE RatLe(d, c2 % d, b, a % b)

RECURSIVE Gcd(_, _)
Gcd(a, b) == IF b = 0 THEN a ELSE Gcd(b, a % b)

RECURSIVE GcdTo(_, _, _)
GcdTo(N, m, g) == IF m = 0 THEN g ELSE GcdTo(N, m - 1, Gcd(N[m], g))

\* the point in lowest terms: x[i] = n[i] / d
Reduced(pt) ==
    LET d0 == BScale * pt.q
        g == GcdTo(pt.n, Len(pt.n), d0)
    IN  [n |-> [i \in DOMAIN pt.n |-> pt.n[i] \div g], d |-> d0 \div g]

\* the residual of row k once the coordinates of S sit at their bounds (those
\* of `up` at the upper bound, the others at the lower), in 1/BScale
Residual(A, b, bnd, k, up, free) ==
    b[k].v - BScale * Dot(A[k], [i \in DOMAIN A[k] |->
                                    IF i \in free THEN 0
                                    ELSE IF i \in up THEN bnd[i][2] ELSE bnd[i][1]])

AtBounds(bnd, up, free, q, vals) ==
    [i \in DOMAIN bnd |->
        IF i \in free THEN vals[i]
        ELSE BScale * q * (IF i \in up THEN bnd[i][2] ELSE bnd[i][1])]

\* the basic solutions of the LP: every coordinate at a bound, but for as many
\* coordinates as there are rows of A_ub held tight
BasicPoints(A, b, bnd) ==
    LET I == DOMAIN bnd
        none == { [n |-> AtBounds(bnd, up, {}, 1, <<>>), q |-> 1] : up \in SUBSET I }
        one == UNION { UNION { UNION {
                 LET a == A[k][i].v
                     r == Residual(A, b, bnd, k, up, {i})
                 IN  IF a = 0 THEN {}
                     ELSE { [n |-> AtBounds(bnd, up, {i}, Abs(a),
                                           [j \in I |-> Sgn(a) * r]),
                             q |-> Abs(a)] }
                 : up \in SUBSET (I \ {i}) } : k \in DOMAIN A } : i \in I }
        two == UNION { UNION { UNION {
                 LET det == A[1][i].v * A[2][j].v - A[1][j].v * A[2][i].v
                     r1 == Residual(A, b, bnd, 1, up, {i, j})
                     r2 == Residual(A, b, bnd, 2, up, {i, j})
                     xi == r1 * A[2][j].v - r2 * A[1][j].v
                     xj == A[1][i].v * r2 - A[2][i].v * r1
                 IN  IF i >= j \/ det = 0 THEN {}
                     ELSE { [n |-> AtBounds(bnd, up, {i, j}, Abs(det),
                                           [m \in I |-> Sgn(det) * (IF m = i THEN xi ELSE xj)]),
                             q |-> Abs(det)] }
                 : up \in SUBSET (I \ {i, j}) } : j \in I } : i \in I }
    IN  none \cup one \cup two

\* lb <= x <= ub and A_ub @ x <= b_ub
IsFeasible(pt, A, b, bnd) ==
    /\ \A i \in DOMAIN bnd :
          BScale * pt.q * bnd[i][1] <= pt.n[i] /\ pt.n[i] <= BScale * pt.q * bnd[i][2]
    /\ \A k \in DOMAIN A : Dot(A[k], pt.n) <= b[k].v * pt.q

\* scipy.optimize.linprog(c, A_ub=A_ub, b_ub=b_ub, bounds=bounds, method='highs'):
\* the results it may return.  It raises ValueError on a coefficient that is
\* NaN or infinite, reports status 2 when no point is feasible, and otherwise
\* returns a vertex of the feasible region that minimises c @ x.
linprog(cc, A, b, bnd) ==
    IF ~(AllFinite(cc) /\ AllFinite(b) /\ \A k \in DOMAIN A : AllFinite(A[k]))
    THEN { [raised |-> TRUE, success |-> FALSE, x |-> <<>>, d |-> 1,
            message |-> "ValueError: must not contain values inf, nan, or None"] }
    ELSE LET F == { pt \in BasicPoints(A, b, bnd) : IsFeasible(pt, A, b, bnd) }
         IN  IF F = {}
             THEN { [raised |-> FALSE, success |-> FALSE, x |-> <<>>, d |-> 1,
                     message |-> "The problem is infeasible."] }
             ELSE { [raised |-> FALSE, success |-> TRUE,
                     x |-> Reduced(pt).n, d |-> Reduced(pt).d,
                     message |-> "Optimization terminated successfully."] :
                    pt \in { p \in F : \A o \in F :
                                RatLe(Dot(cc, p.n), p.q, Dot(cc, o.n), o.q) } }

\* a retention n / d
Retention(n, d) == [t |-> "fin", v |-> n, d |-> d]

\* a faulty variant of Strategy that labels a retention of exactly 0.1 Exit
Strategy_inclusive(retention) ==
    IF retention.v * EXIT_THRESHOLD <= retention.d THEN Str("Exit") ELSE Str("Hold")

\* np.where(df['Optimized_Retention'] < 0.1, 'Exit', 'Hold')
Strategy(retention) ==
    IF retention.v * EXIT_THRESHOLD < retention.d THEN Str("Exit") ELSE Str("Hold")

\* column * res.x, in 1/d of the unit of the column
Weighted(column, x) == [i \in DOMAIN column |-> FMul(column[i], Fin(x[i]), 1)]

\* base_roe = Net_Income.sum() / Stressed_Capital.sum(), in 1/PDScale
base_roe(frame) ==
    FDiv(Sum(Col(frame, "Net_Income")), Sum(Col(frame, "Stressed_Capital")), PDScale)

\* opt_roe = (Net_Income * res.x).sum() / (Stressed_Capital * res.x).sum()
opt_roe(frame, x) ==
    FDiv(Sum(Weighted(Col(frame, "Net_Income"), x)),
         Sum(Weighted(Col(frame, "Stressed_Capital"), x)), PDScale)

\* -------------------------------------------------------------- dashboard
\* df.sample(n=min(500, len(df)), random_state=42): every row when there are at
\* most 500
sample(table) == IF Len(table) <= SAMPLE_MAX THEN table ELSE SubSeq(table, 1, SAMPLE_MAX)

\* np.select(conditions, choices, default='Green Leader')
Category(row) ==
    IF row.Strategy = Str("Exit") THEN Str("Divest (Value Destroyer)")
    ELSE IF FLt(Fin(HIGH_CARBON), row.Carbon_Intensity) /\ row.Strategy = Str("Hold")
         THEN Str("Transition Opportunity")
    ELSE Str("Green Leader")

\* ------------------------------------------------------------------ state
VARIABLES
    pc,                       \* where dataset.py stands
    raw_financial_table,      \* System A, by Borrower_ID
    raw_esg_table,            \* System B, by Borrower_ID
    joined,                   \* the table as the join produced it
    df,                       \* the working data frame
    res,                      \* the result of linprog
    report,                   \* what the run printed about the optimisation
    final_strategy_output,    \* final_strategy_output.csv
    df_viz                    \* the dashboard's frame

vars == <<pc, raw_financial_table, raw_esg_table, joined, df, res, report,
          final_strategy_output, df_viz>>

NoFile == [exists |-> FALSE, table |-> <<>>]
NoResult == [raised |-> FALSE, success |-> FALSE, x |-> <<>>, d |-> 1, message |-> "not run"]
NoReport == [status |-> "none", message |-> "", base_roe |-> NaN, opt_roe |-> NaN]
NoViz == [status |-> "not run", table |-> <<>>]

Init ==
    /\ pc = "join"
    /\ \E kinds \in [1 .. n_loans -> BorrowerKinds] :
          /\ \E b \in 1 .. n_loans : KindHasEsg(kinds[b])
          /\ raw_financial_table = [b \in 1 .. n_loans |-> KindFin(kinds[b], b)]
          /\ raw_esg_table =
                [b \in {b \in 1 .. n_loans : KindHasEsg(kinds[b])} |-> KindEsg(kinds[b], b)]
    /\ joined = <<>>
    /\ df = <<>>
    /\ res = NoResult
    /\ report = NoReport
    /\ final_strategy_output = NoFile
    /\ df_viz = NoViz

\* df = pd.read_sql_query(sql_query, conn)
Join ==
    /\ pc = "join"
    /\ df' = sql_query(raw_financial_table, raw_esg_table)
    /\ joined' = df'
    /\ pc' = "base_pd"
    /\ UNCHANGED <<raw_financial_table, raw_esg_table, res, report,
                   final_strategy_output, df_viz>>

\* df['Base_PD'] = np.random.beta(1.5, 30, len(df)) + (df['Carbon_Intensity'] / 100000)
Calibrate ==
    /\ pc = "base_pd"
    /\ \E hazard \in [DOMAIN df -> HazardDraws] :
          df' = SetCol(df, "Base_PD",
                       [i \in DOMAIN df |-> BasePD(hazard[i], df[i].Carbon_Intensity)])
    /\ pc' = "baseline"
    /\ UNCHANGED <<raw_financial_table, raw_esg_table, joined, res, report,
                   final_strategy_output, df_viz>>

RwaColumn(frame, pdcol) ==
    [i \in DOMAIN frame |->
        calculate_rwa(frame[i].Exposure_INR_Cr, frame[i][pdcol], frame[i].LGD,
                      frame[i].Maturity_Years)]

\* df['Current_RWA'] = calculate_rwa(...); df['Current_Capital'] = Current_RWA * 0.105
Baseline ==
    /\ pc = "baseline"
    /\ LET rwa == RwaColumn(df, "Base_PD")
           d1 == SetCol(df, "Current_RWA", rwa)
       IN  df' = SetCol(d1, "Current_Capital", [i \in DOMAIN df |-> Capital(rwa[i])])
    /\ pc' = "shock"
    /\ UNCHANGED <<raw_financial_table, raw_esg_table, joined, res, report,
                   final_strategy_output, df_viz>>

\* df['Stressed_PD'] = df['Base_PD'] * (1 + (shock_impact * (1 - df['Transition_Readiness'])))
ApplyShock ==
    /\ pc = "shock"
    /\ df' = SetCol(df, "Stressed_PD",
                    [i \in DOMAIN df |->
                        ShockedPD(df[i].Base_PD, df[i].Carbon_Intensity,
                                  df[i].Transition_Readiness)])
    /\ pc' = "cap"
    /\ UNCHANGED <<raw_financial_table, raw_esg_table, joined, res, report,
                   final_strategy_output, df_viz>>

\* df['Stressed_PD'] = np.minimum(df['Stressed_PD'], 0.999)
CapStressedPD ==
    /\ pc = "cap"
    /\ df' = SetCol(df, "Stressed_PD", [i \in DOMAIN df |-> CapPD(df[i].Stressed_PD)])
    /\ pc' = "stressed"
    /\ UNCHANGED <<raw_financial_table, raw_esg_table, joined, res, report,
                   final_strategy_output, df_viz>>

\* Stressed_RWA, Stressed_Capital, Net_Income
StressedFinancials ==
    /\ pc = "stressed"
    /\ LET rwa == RwaColumn(df, "Stressed_PD")
           d1 == SetCol(df, "Stressed_RWA", rwa)
           d2 == SetCol(d1, "Stressed_Capital", [i \in DOMAIN df |-> Capital(rwa[i])])
       IN  df' = SetCol(d2, "Net_Income",
                        [i \in DOMAIN df |->
                            NetIncome(df[i].Exposure_INR_Cr, df[i].Interest_Rate,
                                      df[i].Stressed_PD, df[i].LGD)])
    /\ pc' = "fillna"
    /\ UNCHANGED <<raw_financial_table, raw_esg_table, joined, res, report,
                   final_strategy_output, df_viz>>

\* df.fillna(0, inplace=True)
FillNa ==
    /\ pc = "fillna"
    /\ df' = fillna(df)
    /\ pc' = "solve"
    /\ UNCHANGED <<raw_financial_table, raw_esg_table, joined, res, report,
                   final_strategy_output, df_viz>>

\* res = linprog(c, A_ub=A_ub, b_ub=b_ub, bounds=bounds, method='highs')
Solve ==
    /\ pc = "solve"
    /\ \E r \in linprog(c(df), A_ub(df), b_ub(df), bounds(df)) :
          /\ res' = r
          /\ pc' = IF r.raised THEN "raised" ELSE "branch"
    /\ UNCHANGED <<raw_financial_table, raw_esg_table, joined, df, report,
                   final_strategy_output, df_viz>>

\* if res.success: ... df.to_csv('final_strategy_output.csv', index=False)
Succeed ==
    /\ pc = "branch"
    /\ res.success
    /\ LET d1 == SetCol(df, "Optimized_Retention", [i \in DOMAIN df |-> Retention(res.x[i], res.d)])
           d2 == SetCol(d1, "Strategy",
                        [i \in DOMAIN df |-> Strategy(d1[i].Optimized_Retention)])
       IN  /\ df' = d2
           /\ report' = [status |-> "Optimization Successful", message |-> "",
                         base_roe |-> base_roe(d2), opt_roe |-> opt_roe(d2, res.x)]
           /\ final_strategy_output' = [exists |-> TRUE, table |-> d2]
    /\ pc' = "done"
    /\ UNCHANGED <<raw_financial_table, raw_esg_table, joined, res, df_viz>>

\* a faulty variant of Fail that writes the table although the solve failed
Fail_writes_table ==
    /\ pc = "branch"
    /\ ~res.success
    /\ report' = [status |-> "Optimization Failed", message |-> res.message,
                  base_roe |-> NaN, opt_roe |-> NaN]
    /\ final_strategy_output' = [exists |-> TRUE, table |-> df]
    /\ pc' = "done"
    /\ UNCHANGED <<raw_financial_table, raw_esg_table, joined, df, res, df_viz>>

\* else: print("Optimization Failed:", res.message)
Fail ==
    /\ pc = "branch"
    /\ ~res.success
    /\ report' = [status |-> "Optimization Failed", message |-> res.message,
                  base_roe |-> NaN, opt_roe |-> NaN]
    /\ pc' = "done"
    /\ UNCHANGED <<raw_financial_table, raw_esg_table, joined, df, res,
                   final_strategy_output, df_viz>>

\* dashboard.py, run after dataset.py has ended
Dashboard ==
    /\ pc \in {"done", "raised"}
    /\ df_viz.status = "not run"
    /\ IF ~final_strategy_output.exists
       THEN df_viz' = [status |-> "Error: Results file not found.", table |-> <<>>]
       ELSE LET t == sample(final_strategy_output.table)
                d1 == SetCol(t, "RAROC",
                             [i \in DOMAIN t |->
                                 FDiv(t[i].Net_Income, t[i].Stressed_Capital, PDScale)])
            IN  df_viz' = [status |-> "Graph saved",
                           table |-> SetCol(d1, "Category",
                                            [i \in DOMAIN t |-> Category(d1[i])])]
    /\ UNCHANGED <<pc, raw_financial_table, raw_esg_table, joined, df, res, report,
                   final_strategy_output>>

Next ==
    \/ Join
    \/ Calibrate
    \/ Baseline
    \/ ApplyShock
    \/ CapStressedPD
    \/ StressedFinancials
    \/ FillNa
    \/ Solve
    \/ Succeed
    \/ Fail
    \/ Dashboard

Spec == Init /\ [][Next]_vars

\* ------------------------------------------------------------------ claims
Written == final_strategy_output.exists
Out == final_strategy_output.table
RetNum(table) == [i \in DOMAIN table |-> table[i].Optimized_Retention.v]
RetDen(table) == table[1].Optimized_Retention.d
Solved == pc = "done" /\ res.success

\* the facility's inputs are in the domain the claims speak of: finite cells,
\* readiness in [0, 1], a non-negative carbon intensity
InDomain(i) ==
    /\ \A k \in InputColumns \ {"Sector"} : IsFin(joined[i][k])
    /\ 0 <= joined[i].Transition_Readiness.v
    /\ joined[i].Transition_Readiness.v <= TRScale
    /\ joined[i].Carbon_Intensity.v >= 0

\* every facility is in the domain and its Base_PD is a probability in (0, 0.999]
ValidPortfolio ==
    \A i \in DOMAIN df :
        /\ InDomain(i)
        /\ IsFin(df[i].Base_PD) /\ 0 < df[i].Base_PD.v /\ df[i].Base_PD.v <= PD_CAP

HasBasePD == pc \notin {"join", "base_pd"}
HasFinalStressedPD == pc \in {"stressed", "fillna"}

\* C1: when the solve does not report success, the run reports the solver's
\* message and writes neither Optimized_Retention nor Strategy nor the output
\* table; the output table exists only in runs whose solve succeeded.
C1_FailureWritesNothing ==
    /\ (pc \in {"branch", "done", "raised"} /\ ~res.success) =>
          /\ ~HasCol(df, "Optimized_Retention")
          /\ ~HasCol(df, "Strategy")
          /\ ~Written
    /\ (pc = "done" /\ ~res.success) =>
          /\ report.status = "Optimization Failed"
          /\ report.message = res.message
    /\ Written => res.success

C1_Witness ==
    /\ pc = "done" /\ ~res.success
    /\ report.message = "The problem is infeasible."
    /\ df_viz.status = "Error: Results file not found."

\* C2: the written Optimized_Retention satisfies the capital ceiling, the
\* volume floor and 0 <= retention <= 1, with the coefficients of its own row.
C2_ConstraintsHold ==
    Written =>
        LET n == RetNum(Out)
            d == RetDen(Out)
        IN  /\ \A i \in DOMAIN Out :
                  /\ Out[i].Optimized_Retention.d = d
                  /\ 0 <= n[i] /\ n[i] <= d
            /\ RatLe(Dot(Col(Out, "Stressed_Capital"), n), d,
                     CAPITAL_CEILING * Sum(Col(Out, "Current_Capital")).v, BScale)
            /\ RatLe(VOLUME_FLOOR * Sum(Col(Out, "Exposure_INR_Cr")).v, BScale,
                     Dot(Col(Out, "Exposure_INR_Cr"), n), d)

\* a run that succeeded with a fractional retention and a binding capital ceiling
C2_Witness ==
    /\ Written /\ Len(Out) >= 2 /\ ValidPortfolio
    /\ \E i \in DOMAIN Out : 0 < RetNum(Out)[i] /\ RetNum(Out)[i] < RetDen(Out)
    /\ Dot(Col(Out, "Stressed_Capital"), RetNum(Out)) * BScale =
          CAPITAL_CEILING * Sum(Col(Out, "Current_Capital")).v * RetDen(Out)

\* C3 as stated: whenever the LP is solved, the optimized ROE is at least the
\* baseline stressed ROE.
C3_OptimizedRoeAtLeastBaseline ==
    (Solved /\ ValidPortfolio /\ IsFin(report.base_roe) /\ IsFin(report.opt_roe)) =>
        ~FLt(report.opt_roe, report.base_roe)

\* the retention vectors with coordinates k / GridSteps that satisfy the
\* constraints of the LP
GridFeasible(table) ==
    LET cap == Col(table, "Stressed_Capital")
        exposure == Col(table, "Exposure_INR_Cr")
        ceiling == CAPITAL_CEILING * Sum(Col(table, "Current_Capital")).v * GridSteps
        floor == VOLUME_FLOOR * Sum(exposure).v * GridSteps
    IN  { y \in [DOMAIN table -> 0 .. GridSteps] :
            /\ Dot(cap, y) * BScale <= ceiling
            /\ floor <= Dot(exposure, y) * BScale }

\* C3 as amended: whenever the LP is solved, the optimized net income is at
\* least the net income of every retention vector that satisfies the
\* constraints; in particular at least the baseline net income when uniform
\* retention satisfies them.
C3_OptimizedIncomeAtLeastFeasible ==
    Written =>
        LET income == Col(Out, "Net_Income")
            optimum == Dot(income, RetNum(Out))
            d == RetDen(Out)
        IN  \A y \in GridFeasible(Out) : RatLe(Dot(income, y), GridSteps, optimum, d)

\* every facility earns a positive net income, some retention vector of the
\* grid is feasible, and the ROE the solver's optimum yields is below the baseline
C3_Witness ==
    /\ Written /\ ValidPortfolio
    /\ \A i \in DOMAIN Out : Out[i].Net_Income.v > 0
    /\ GridFeasible(Out) # {}
    /\ FLt(report.opt_roe, report.base_roe)

\* C4: Base_PD and the capped Stressed_PD of every facility lie in (0, 0.999].
C4_PDInRange ==
    /\ HasBasePD =>
          \A i \in DOMAIN df :
              InDomain(i) => (0 < df[i].Base_PD.v /\ df[i].Base_PD.v <= PD_CAP)
    /\ HasFinalStressedPD =>
          \A i \in DOMAIN df :
              InDomain(i) => (0 < df[i].Stressed_PD.v /\ df[i].Stressed_PD.v <= PD_CAP)

\* C5: with a non-negative shock and readiness in [0, 1], the capped Stressed_PD
\* is at least Base_PD.
C5_StressedAtLeastBase ==
    HasFinalStressedPD =>
        \A i \in DOMAIN df :
            InDomain(i) => ~FLt(df[i].Stressed_PD, df[i].Base_PD)

\* C6: with Transition_Readiness = 1 the capped Stressed_PD equals Base_PD.
C6_FullReadinessNoShock ==
    HasFinalStressedPD =>
        \A i \in DOMAIN df :
            joined[i].Transition_Readiness = Fin(TRScale) =>
                df[i].Stressed_PD = df[i].Base_PD

\* C7: when the solver is called, none of the coefficients handed to it is NaN
\* or infinite.
C7_NoAnomalyReachesSolver ==
    pc = "solve" =>
        /\ AllFinite(c(df))
        /\ AllFinite(b_ub(df))
        /\ \A k \in DOMAIN A_ub(df) : AllFinite(A_ub(df)[k])

\* C8: the input columns of the final table hold the values the join produced.
C8_InputsPreserved ==
    Written =>
        /\ Len(Out) = Len(joined)
        /\ \A i \in DOMAIN Out : \A k \in InputColumns : Out[i][k] = joined[i][k]

\* C9: every facility of a successful run has one Strategy label, Exit exactly
\* when its retention is below 0.1 (0.1 itself is Hold); the dashboard reads
\* the label as written.
C9_ExitIffBelowThreshold ==
    /\ Written =>
          \A i \in DOMAIN Out :
              /\ Out[i].Strategy \in {Str("Exit"), Str("Hold")}
              /\ Out[i].Strategy = Str("Exit") <=>
                    RetNum(Out)[i] * 10 < Out[i].Optimized_Retention.d
    /\ df_viz.status = "Graph saved" =>
          \A i \in DOMAIN Out :
              /\ df_viz.table[i].Strategy = Out[i].Strategy
              /\ df_viz.table[i].Category = Str("Divest (Value Destroyer)") <=>
                    Out[i].Strategy = Str("Exit")

\* a retention of exactly 0.1, labelled Hold, and the dashboard has run
C9_Witness ==
    /\ Written /\ ValidPortfolio /\ df_viz.status = "Graph saved"
    /\ \E i \in DOMAIN Out :
          /\ RetNum(Out)[i] * 10 = Out[i].Optimized_Retention.d
          /\ Out[i].Strategy = Str("Hold")

ExitRows(table) == { i \in DOMAIN table : table[i].Strategy = Str("Exit") }

\* C10: in a successful run with all exposures positive, the exposure labelled
\* Exit is less than one sixth of the total exposure.
C10_ExitExposureBelowSixth ==
    (Written /\ \A i \in DOMAIN Out : FLt(Fin(0), Out[i].Exposure_INR_Cr)) =>
        6 * Sum([i \in DOMAIN Out |->
                    IF i \in ExitRows(Out) THEN Out[i].Exposure_INR_Cr ELSE Fin(0)]).v
           < Sum(Col(Out, "Exposure_INR_Cr")).v

C10_Witness ==
    /\ Written /\ ValidPortfolio
    /\ \A i \in DOMAIN Out : FLt(Fin(0), Out[i].Exposure_INR_Cr)
    /\ ExitRows(Out) # {}

====
